---- MODULE Spec2Model ----
(***************************************************************************)
(* The frame-streaming client protocol of the Siteguard front end.         *)
(*                                                                         *)
(* Spec models one instance of a video-feed component (VideoFeed,          *)
(* DriverVideoFeed or SafeDrivingPage's CameraFeed): its refs and React    *)
(* state, the sockets its streaming effect has created (each with the      *)
(* closure variables of the effect run that created it), the 5 s recovery  *)
(* timers, the render loop, and a server that may answer anything at any   *)
(* time.  Every action is one event handler run to completion, together    *)
(* with the React commit (effect cleanup and re-run) it causes.            *)
(*                                                                         *)
(* PageSpec models one instance of ErgonomicsPage or VehicleControlPage,   *)
(* which share the sockets and the video element but pace by the clock.    *)
(*                                                                         *)
(* UploadSpec, JobSpec and DashSpec model one instance of UploadJobPage,   *)
(* JobStatusPage and SecurityDashboard, the pages that stream no video.    *)
(***************************************************************************)
EXTENDS Integers, Sequences, FiniteSets, TLC

\* ------------------------------------------------------------------ bounds
MaxFrames == 4      \* frames one instance captures in a checked run
MaxSockets == 2     \* sockets one instance creates in a checked run
MaxCount == 1       \* results counted within one second of the fps clock
MaxTicks == 3       \* steps of the clock in a checked run of a page
MaxPolls == 3       \* getJob calls one JobStatusPage makes in a checked run
MaxEvents == 3      \* events one SecurityDashboard receives in a checked run

\* ------------------------------------------------------- program constants
BACKPRESSURE_LIMIT == 2     \* pendingFramesMap.current.size > 2
MAP_KEEP == 100             \* pendingFramesMap.current.size > 100
LOG_KEEP == 12              \* [...annotated, ...prev].slice(0, 12)
SEND_INTERVAL == 100        \* const SEND_INTERVAL = 100 (the two pages)

Kinds == {"VideoFeed", "DriverVideoFeed", "CameraFeed"}
PageKinds == {"ErgonomicsPage", "VehicleControlPage"}

VARIABLES
    kind,               \* which component this instance is
    activeMode,         \* useState: "none" (null) | "webcam" | "file"
    isPaused,           \* useState (only VideoFeed ever sets it)
    camPending,         \* startWebcam is awaiting getUserMedia
    video,              \* the <video> element: empty | loading | playing | paused | ended
    frameSequence,      \* useRef(0)
    pendingFramesMap,   \* useRef(new Map()): set of [id, img]
    capturedFrameRef,   \* useRef(null): image token, 0 = null
    latestResultRef,    \* useRef(null): the payload, by its frame_id; 0 = null
    wsRef,              \* useRef(null): socket index, 0 = null
    effSock,            \* `ws` of the live effect run, 0 = no effect run is live
    socks,              \* every socket created so far, with its effect closure
    timers,             \* armed setTimeout callbacks that have not run, oldest first
    latencyMs,          \* useState
    framesCount,        \* useRef(0): the fps frame counter
    fps,                \* useState
    violationLog,       \* useState (VideoFeed): the log, by its length
    driverStatus,       \* useState (DriverVideoFeed): frame_id of the result it was set from
    parentResult,       \* SafeDrivingPage's frontResult / rearResult: its frame_id, -1 = null
    wsStatus,           \* useState
    shot,               \* history: frame_id -> image token stored under it
    sent,               \* history: the frame_ids sent, in order
    sessionBase,        \* history: frameSequence when the current source was started
    lastShownId,        \* history: the largest frame_id ever accepted for display
    dropsClean,         \* history: no unmatched result has changed what is shown
    \* ErgonomicsPage and VehicleControlPage only
    now,                \* Date.now()
    lastSendTime,       \* `let lastSendTime` of the live render effect run
    result,             \* useState: the payload, by its frame_id; 0 = null
    showGuide,          \* useState (ErgonomicsPage)
    unacked,            \* history: frame_ids sent and not yet answered
    \* the pages that do not stream video, each by a record of its state
    uploadPage,         \* UploadJobPage
    jobStatus,          \* JobStatusPage
    dashboard           \* SecurityDashboard

vars == <<kind, activeMode, isPaused, camPending, video, frameSequence,
          pendingFramesMap, capturedFrameRef, latestResultRef, wsRef, effSock,
          socks, timers, latencyMs, framesCount, fps, violationLog,
          driverStatus, parentResult, wsStatus, shot, sent,
          sessionBase, lastShownId, dropsClean, now, lastSendTime, result,
          showGuide, unacked, uploadPage, jobStatus, dashboard>>

\* What no handler of a streaming component touches ...
otherPages == <<uploadPage, jobStatus, dashboard>>
\* ... what no handler of the other pages touches ...
streaming == <<kind, activeMode, isPaused, camPending, video, frameSequence,
               pendingFramesMap, capturedFrameRef, latestResultRef, wsRef, effSock,
               socks, timers, latencyMs, framesCount, fps, violationLog,
               driverStatus, parentResult, wsStatus, shot, sent,
               sessionBase, lastShownId, dropsClean, now, lastSendTime, result,
               showGuide, unacked>>
\* ... what the handlers of the three feed components never touch ...
pageOnly == <<now, lastSendTime, result, showGuide, unacked>>
\* ... and what the handlers of the two pages never touch.
feedOnly == <<isPaused, frameSequence, pendingFramesMap, capturedFrameRef, effSock,
              timers, latencyMs, violationLog, driverStatus, parentResult, shot,
              sessionBase, lastShownId, dropsClean>>

\* ------------------------------------------------------------------ values
\* What a server can put on a socket.  frame_id 0 stands for an id the client
\* has not used (absent, a string, a number from elsewhere); latency_ms -1 for no number;
\* violations is the length of the payload's violations array, which only
\* VideoFeed reads.  "garbage" is
\* anything that is not a JSON text (a binary frame, a broken string).
ResultMessages ==
    [type : {"result"}, frame_id : 0..frameSequence, latency_ms : {-1, 1},
     violations : IF kind = "VideoFeed" THEN {0, 1} ELSE {0}]
OtherMessages ==
    [type : {"ready", "error", "garbage"}, frame_id : {0},
     latency_ms : {-1}, violations : {0}]
Messages == ResultMessages \cup OtherMessages

\* Canvas frames that are not a captured image.
LOADING == 0
BLANK == -1
LIVE == -2

NewSocket(paused) ==
    [rs |-> "CONNECTING", isProcessing |-> FALSE, loop |-> FALSE,
     isPausedC |-> paused, await |-> 0]

\* The closure of an effect run is read only while its socket is CONNECTING or
\* OPEN (every read in processLoop is behind readyState === OPEN, onmessage needs
\* an open socket, and a timer only clears isProcessing).  Once the socket has
\* left those states the closure variables are dead; they are held at their
\* initial values, and the socket's armed timers are dropped.
Retired(sk, rs) ==
    [sk EXCEPT !.rs = rs, !.isProcessing = FALSE, !.isPausedC = FALSE, !.await = 0]

Armed(tt, ss) ==
    SelectSeq(tt, LAMBDA t : ss[t.s].rs \in {"CONNECTING", "OPEN"})

Keys(map) == {e.id : e \in map}
MapGet(map, id) == (CHOOSE e \in map : e.id = id).img
MapSet(map, id, img) == {e \in map : e.id # id} \cup {[id |-> id, img |-> img]}
FirstKey(map) == CHOOSE k \in Keys(map) : \A j \in Keys(map) : k <= j

HasPause == kind = "VideoFeed"
NullsWsRefOnCleanup == kind \in {"VideoFeed", "DriverVideoFeed"}


\* --------------------------------------------------------- the <video> element
\* videoRef.current.readyState >= 2
VideoReady == video \in {"playing", "paused", "ended"}
\* videoRef.current.paused
VideoPausedAttr == video \in {"empty", "paused", "ended"}
\* videoRef.current.ended
VideoEndedAttr == video = "ended"

\* video.play() / video.pause() called on the element
AfterPlay(v) == IF v \in {"paused", "ended"} THEN "playing" ELSE v
AfterPause(v) == IF v = "playing" THEN "paused" ELSE v

\* ------------------------------------------------ the streaming effect (React)
\* The cleanup returned by the effect run that is live: close the socket if it
\* is OPEN, cancelAnimationFrame(animationFrameId).
CleanedUp(ss) ==
    IF effSock = 0 THEN ss
    ELSE [ss EXCEPT ![effSock] = IF @.rs = "OPEN"
                                 THEN [Retired(@, "CLOSING") EXCEPT !.loop = FALSE]
                                 ELSE [@ EXCEPT !.loop = FALSE]]

\* A commit that re-runs the effect and has a source creates a socket.
CanCommit(mode, rerun) == (rerun /\ mode # "none") => Len(socks) < MaxSockets

\* The commit after a handler that left the sockets as ss and wsRef as wr, with
\* the new state (mode, paused); rerun says whether the effect's deps changed.
Commit(ss, wr, mode, paused, rerun) ==
    /\ IF ~rerun
       THEN /\ socks' = ss
            /\ wsRef' = wr
            /\ effSock' = effSock
       ELSE IF mode = "none"
       THEN /\ socks' = CleanedUp(ss)
            /\ wsRef' = IF effSock # 0 /\ NullsWsRefOnCleanup THEN 0 ELSE wr
            /\ effSock' = 0
       ELSE /\ socks' = Append(CleanedUp(ss), NewSocket(paused))
            /\ wsRef' = Len(ss) + 1
            /\ effSock' = Len(ss) + 1
    /\ timers' = Armed(timers, socks')

\* -------------------------------------------------------------- stopEverything
\* A stopEverything that closed nothing would leave the sockets as they are.
LeftOpen == socks

\* wsRef.current.close() in stopEverything
StoppedSocks ==
    IF wsRef = 0 THEN socks
    ELSE [socks EXCEPT ![wsRef] =
              IF @.rs \in {"CONNECTING", "OPEN"} THEN Retired(@, "CLOSING") ELSE @]

\* A stopEverything that started the numbering again would leave this.
SeqReset(seq) == 0

\* What stopEverything leaves in frameSequence.
SeqAfterStop(seq) == seq

\* The state stopEverything resets, apart from the sockets, video and activeMode.
StopResets ==
    /\ frameSequence' = SeqAfterStop(frameSequence)
    /\ IF kind = "VideoFeed"
       THEN /\ latestResultRef' = 0
            /\ fps' = 0
            /\ latencyMs' = 0
            /\ violationLog' = 0
       ELSE UNCHANGED <<latestResultRef, fps, latencyMs, violationLog>>
    /\ UNCHANGED <<pendingFramesMap, capturedFrameRef, framesCount,
                   driverStatus, parentResult, shot, sent, lastShownId>>

StoppedStatus ==
    CASE kind = "VideoFeed" -> "Idle"
      [] kind = "DriverVideoFeed" -> "Selecciona una fuente"
      [] OTHER -> "Selecciona fuente"

\* The deps [activeMode, isPaused] of the streaming effect changed.
DepsChanged(mode, paused) == activeMode # mode \/ isPaused # paused

\* The stop button (VideoFeed, CameraFeed; shown while a source is active).
StopEverything ==
    /\ kind \in {"VideoFeed", "CameraFeed"}
    /\ activeMode # "none"
    /\ StopResets
    /\ activeMode' = "none"
    /\ isPaused' = FALSE
    /\ video' = "empty"
    /\ wsStatus' = StoppedStatus
    /\ Commit(StoppedSocks, 0, "none", FALSE, DepsChanged("none", FALSE))
    /\ UNCHANGED <<otherPages, pageOnly, dropsClean, kind, camPending, sessionBase>>

\* CameraFeed shows its source buttons only while no source is active.
SourceButtons == kind = "CameraFeed" => activeMode = "none"

\* handleFileSelect (VideoFeed) / handleFileUpload (DriverVideoFeed, CameraFeed)
HandleFile ==
    /\ SourceButtons
    /\ CanCommit("file", DepsChanged("file", FALSE))
    /\ StopResets
    /\ activeMode' = "file"
    /\ isPaused' = FALSE
    /\ video' = "loading"
    /\ wsStatus' = IF kind = "VideoFeed" THEN "Procesando video local" ELSE StoppedStatus
    /\ sessionBase' = frameSequence
    /\ Commit(StoppedSocks, 0, "file", FALSE, DepsChanged("file", FALSE))
    /\ UNCHANGED <<otherPages, pageOnly, dropsClean, kind, camPending>>

\* startWebcam up to its await: stopEverything(), then the commit of that state.
StartWebcam ==
    /\ SourceButtons
    /\ ~camPending
    /\ StopResets
    /\ activeMode' = "none"
    /\ isPaused' = FALSE
    /\ video' = "empty"
    /\ wsStatus' = StoppedStatus
    /\ camPending' = TRUE
    /\ Commit(StoppedSocks, 0, "none", FALSE, DepsChanged("none", FALSE))
    /\ UNCHANGED <<otherPages, pageOnly, dropsClean, kind, sessionBase>>

\* startWebcam after getUserMedia resolved.
WebcamGranted ==
    /\ camPending
    /\ CanCommit("webcam", DepsChanged("webcam", isPaused))
    /\ camPending' = FALSE
    /\ video' = "loading"
    /\ activeMode' = "webcam"
    /\ wsStatus' = IF kind = "VideoFeed" THEN "Webcam activa" ELSE wsStatus
    /\ sessionBase' = frameSequence
    /\ Commit(socks, wsRef, "webcam", isPaused, DepsChanged("webcam", isPaused))
    /\ UNCHANGED <<otherPages, pageOnly, dropsClean, kind, isPaused, frameSequence, pendingFramesMap, capturedFrameRef,
                   latestResultRef, latencyMs, framesCount, fps,
                   violationLog, driverStatus, parentResult, shot, sent,
                   lastShownId>>

\* startWebcam after getUserMedia rejected: alert(...)
WebcamDenied ==
    /\ camPending
    /\ camPending' = FALSE
    /\ UNCHANGED <<otherPages, pageOnly, dropsClean, kind, activeMode, isPaused, video, frameSequence, pendingFramesMap,
                   capturedFrameRef, latestResultRef, wsRef, effSock, socks, timers,
                   latencyMs, framesCount, fps, violationLog, driverStatus,
                   parentResult, wsStatus, shot, sent, sessionBase,
                   lastShownId>>

\* togglePause (VideoFeed; the button is shown while a source is active)
TogglePause ==
    /\ HasPause
    /\ activeMode # "none"
    /\ CanCommit(activeMode, TRUE)
    /\ isPaused' = ~isPaused
    /\ video' = IF isPaused THEN AfterPlay(video) ELSE AfterPause(video)
    /\ Commit(socks, wsRef, activeMode, ~isPaused, TRUE)
    /\ UNCHANGED <<otherPages, pageOnly, dropsClean, kind, activeMode, camPending, frameSequence, pendingFramesMap,
                   capturedFrameRef, latestResultRef, latencyMs,
                   framesCount, fps, violationLog, driverStatus, parentResult,
                   wsStatus, shot, sent, sessionBase, lastShownId>>

\* SafeDrivingPage re-renders (the other camera's result, the audio button):
\* CameraFeed gets a new onResult closure, a dep of its streaming effect.
ParentRerender ==
    /\ kind = "CameraFeed"
    /\ CanCommit(activeMode, TRUE)
    /\ Commit(socks, wsRef, activeMode, FALSE, TRUE)
    /\ UNCHANGED <<otherPages, pageOnly, dropsClean, kind, activeMode, isPaused, camPending, video, frameSequence,
                   pendingFramesMap, capturedFrameRef, latestResultRef, latencyMs,
                   framesCount, fps, violationLog, driverStatus,
                   parentResult, wsStatus, shot, sent, sessionBase,
                   lastShownId>>

\* onloadedmetadata -> play() (VideoFeed); play() taking effect once data is there
VideoLoaded ==
    /\ video = "loading"
    /\ video' = "playing"
    /\ UNCHANGED <<otherPages, pageOnly, dropsClean, kind, activeMode, isPaused, camPending, frameSequence,
                   pendingFramesMap, capturedFrameRef, latestResultRef, wsRef,
                   effSock, socks, timers, latencyMs, framesCount, fps,
                   violationLog, driverStatus, parentResult, wsStatus, shot,
                   sent, sessionBase, lastShownId>>

\* A file played to its end: only VideoFeed sets loop = false.
VideoEnded ==
    /\ kind = "VideoFeed"
    /\ activeMode = "file"
    /\ video = "playing"
    /\ video' = "ended"
    /\ UNCHANGED <<otherPages, pageOnly, dropsClean, kind, activeMode, isPaused, camPending, frameSequence,
                   pendingFramesMap, capturedFrameRef, latestResultRef, wsRef,
                   effSock, socks, timers, latencyMs, framesCount, fps,
                   violationLog, driverStatus, parentResult, wsStatus, shot,
                   sent, sessionBase, lastShownId>>

\* ---------------------------------------------------------------- processLoop
\* A loop without the guard.
NoBackpressure == FALSE

\* BACKPRESSURE: pendingFramesMap.current.size > 2
Backpressure == Cardinality(pendingFramesMap) > BACKPRESSURE_LIMIT

\* The guards of one processLoop iteration of the socket record sk: TRUE when the
\* iteration goes on to capture and send a frame.
LoopPasses(sk) ==
    /\ sk.rs = "OPEN"
    /\ CASE kind = "VideoFeed" -> ~(sk.isPausedC \/ VideoEndedAttr)
         [] kind = "DriverVideoFeed" ->
                ~(sk.isPausedC \/ VideoPausedAttr \/ VideoEndedAttr)
         [] OTHER -> TRUE
    /\ ~sk.isProcessing
    /\ ~Backpressure
    /\ CASE kind = "VideoFeed" ->
                ~(~VideoReady \/ VideoPausedAttr \/ VideoEndedAttr)
         [] OTHER -> VideoReady

\* const currentFrameId = ++frameSequence.current
NextFrameId(seq) == seq + 1

\* The ImageData object the n-th getImageData call returns.
NewImage == Len(sent) + 1

\* pendingFramesMap.set(id, frameData), then the "keep last 100" clean-up.
Stored(map, id, img) ==
    LET put == MapSet(map, id, img)
    IN  IF Cardinality(put) > MAP_KEEP
        THEN {e \in put : e.id # FirstKey(put)}
        ELSE put

\* The rest of the iteration on socket s (the sockets being ss): capture, store,
\* send, isProcessing = true, setTimeout(..., 5000).
Capture(s, ss) ==
    LET id == NextFrameId(frameSequence)
    IN  /\ frameSequence' = id
        /\ pendingFramesMap' = Stored(pendingFramesMap, id, NewImage)
        /\ shot' = [shot EXCEPT ![id] = NewImage]
        /\ sent' = Append(sent, id)
        /\ socks' = [ss EXCEPT ![s].isProcessing = TRUE, ![s].await = id]
        /\ timers' = Append(timers, [s |-> s, f |-> id])

\* An iteration of the running loop of socket s that sends a frame (an iteration
\* that returns at a guard changes nothing and is a stuttering step).
LoopStep(s) ==
    /\ socks[s].loop
    /\ LoopPasses(socks[s])
    /\ frameSequence < MaxFrames
    /\ Capture(s, socks)
    /\ UNCHANGED <<otherPages, pageOnly, dropsClean, kind, activeMode, isPaused, camPending, video, capturedFrameRef,
                   latestResultRef, wsRef, effSock, latencyMs, framesCount,
                   fps, violationLog, driverStatus, parentResult, wsStatus,
                   sessionBase, lastShownId>>

\* ws.onopen: setWsStatus("Conectado"); processLoop() -- the first iteration runs
\* inside the handler.
OnOpen(s) ==
    /\ socks[s].rs = "CONNECTING"
    /\ wsStatus' = "Conectado"
    /\ LET ss == [socks EXCEPT ![s].rs = "OPEN", ![s].loop = TRUE]
       IN  IF LoopPasses(ss[s]) /\ frameSequence < MaxFrames
           THEN Capture(s, ss)
           ELSE /\ socks' = ss
                /\ UNCHANGED <<frameSequence, pendingFramesMap, shot, sent, timers>>
    /\ UNCHANGED <<otherPages, pageOnly, dropsClean, kind, activeMode, isPaused, camPending, video, capturedFrameRef,
                   latestResultRef, wsRef, effSock, latencyMs, framesCount,
                   fps, violationLog, driverStatus, parentResult,
                   sessionBase, lastShownId>>

\* ws.onerror.  The browser follows an error with the close event.
OnError(s) ==
    /\ socks[s].rs \in {"CONNECTING", "OPEN", "CLOSING"}
    /\ wsStatus' = CASE kind = "VideoFeed" -> "Error de WebSocket"
                     [] kind = "DriverVideoFeed" -> "Error de conexion"
                     [] OTHER -> "Error"
    /\ socks' = [socks EXCEPT ![s] = Retired(@, "CLOSING")]
    /\ timers' = Armed(timers, socks')
    /\ UNCHANGED <<otherPages, pageOnly, dropsClean, kind, activeMode, isPaused, camPending, video, frameSequence,
                   pendingFramesMap, capturedFrameRef, latestResultRef, wsRef,
                   effSock, latencyMs, framesCount, fps, violationLog,
                   driverStatus, parentResult, shot, sent, sessionBase,
                   lastShownId>>

\* ws.onclose: setWsStatus(...); cancelAnimationFrame(animationFrameId)
OnClose(s) ==
    /\ socks[s].rs # "CLOSED"
    /\ wsStatus' = IF kind = "CameraFeed" THEN "Desconectado" ELSE "Conexion cerrada"
    /\ socks' = [socks EXCEPT ![s] = [Retired(@, "CLOSED") EXCEPT !.loop = FALSE]]
    /\ timers' = Armed(timers, socks')
    /\ UNCHANGED <<otherPages, pageOnly, dropsClean, kind, activeMode, isPaused, camPending, video, frameSequence,
                   pendingFramesMap, capturedFrameRef, latestResultRef, wsRef,
                   effSock, latencyMs, framesCount, fps, violationLog,
                   driverStatus, parentResult, shot, sent, sessionBase,
                   lastShownId>>

\* ------------------------------------------------------------ the 5 s timers
\* setTimeout(() => { if (isProcessing) isProcessing = false }, 5000): the
\* callbacks run in the order they were armed, each when its 5 s have passed.
TimerFire ==
    /\ timers # << >>
    /\ socks' = [socks EXCEPT ![Head(timers).s].isProcessing = FALSE]
    /\ timers' = Tail(timers)
    /\ UNCHANGED <<otherPages, pageOnly, dropsClean, kind, activeMode, isPaused, camPending, video, frameSequence,
                   pendingFramesMap, capturedFrameRef, latestResultRef, wsRef,
                   effSock, latencyMs, framesCount, fps, violationLog, driverStatus,
                   parentResult, wsStatus, shot, sent, sessionBase,
                   lastShownId>>

\* Frame f, sent on socket s, has been outstanding for less than 5 s: the
\* timer armed when it was sent has not run.
Young(s, f) ==
    \E i \in 1..Len(timers) : timers[i] = [s |-> s, f |-> f]

\* ----------------------------------------------------------------- ws.onmessage
\* JSON.parse(event.data) succeeds (VideoFeed returns before it on a non-string).
Parsed(m) == m.type # "garbage"

\* The message reaches the frame look-up: payload.type === "frame_result" in
\* VideoFeed, anything but "ready" in DriverVideoFeed and CameraFeed.
TreatedAsResult(m) ==
    IF kind = "VideoFeed" THEN m.type = "result" ELSE m.type \in {"result", "error"}

\* pendingFramesMap.current.has(frame_id)
Matched(m) == m.frame_id \in Keys(pendingFramesMap)

\* A handler without the else branch, in every component.
CountsUnmatched == FALSE

\* The else branch of the look-up returns (VideoFeed, DriverVideoFeed);
\* CameraFeed has no else branch and goes on.
DropsUnmatched == kind \in {"VideoFeed", "DriverVideoFeed"}

\* A handler that deleted only the matched key.
KeepsOlder(map, id) == {e \in map : e.id # id}

\* A handler that emptied the map at every match.
DropsAll(map, id) == {}

\* delete(frame_id), then delete every key < frame_id
Remaining(map, id) == {e \in map : e.id # id /\ ~(e.id < id)}

\* A handler that took the oldest stored image whatever the frame_id.
OldestImage(map, id) == MapGet(map, FirstKey(map))

\* The image put in capturedFrameRef for a matched result.
MatchedImage(map, id) == MapGet(map, id)

AcceptFrame(m) ==
    /\ capturedFrameRef' = MatchedImage(pendingFramesMap, m.frame_id)
    /\ latestResultRef' = m.frame_id
    /\ pendingFramesMap' = Remaining(pendingFramesMap, m.frame_id)
    /\ lastShownId' = IF m.frame_id > lastShownId THEN m.frame_id ELSE lastShownId

NoAccept ==
    UNCHANGED <<capturedFrameRef, latestResultRef, pendingFramesMap, lastShownId>>

\* [...annotated, ...prev].slice(0, 12), one log entry per violation
Logged(log, m) ==
    IF m.violations + log < LOG_KEEP THEN m.violations + log ELSE LOG_KEEP

\* framesCount.current++; if (now - lastFpsTime >= 1000): setFps, reset.
\* sec: a second has passed since lastFpsTime.
Counted(sec) ==
    /\ sec \/ framesCount < MaxCount
    /\ framesCount' = IF sec THEN 0 ELSE framesCount + 1
    /\ fps' = IF sec THEN framesCount + 1 ELSE fps

\* The bookkeeping after the look-up.
Book(m, ss) ==
    /\ \E sec \in BOOLEAN : Counted(sec)
    /\ CASE kind = "VideoFeed" ->
              /\ latencyMs' = IF m.latency_ms # -1 THEN m.latency_ms ELSE latencyMs
              /\ violationLog' = IF m.violations > 0 THEN Logged(violationLog, m)
                                 ELSE violationLog
              /\ socks' = ss
              /\ UNCHANGED <<driverStatus, parentResult, wsRef, effSock, timers>>
         [] kind = "DriverVideoFeed" ->
              /\ latencyMs' = IF m.latency_ms > 0 THEN m.latency_ms ELSE latencyMs
              /\ driverStatus' = m.frame_id
              /\ socks' = ss
              /\ UNCHANGED <<violationLog, parentResult, wsRef, effSock, timers>>
         [] OTHER ->
              \* onResult(data): the parent sets its state and re-renders, which
              \* hands CameraFeed a new onResult and so re-runs its effect
              /\ latencyMs' = IF m.latency_ms > 0 THEN m.latency_ms ELSE latencyMs
              /\ parentResult' = m.frame_id
              /\ Commit(ss, wsRef, activeMode, FALSE, TRUE)
              /\ UNCHANGED <<violationLog, driverStatus>>

\* What a result changes on the screen: the frame, the overlay, the panel.
panel == <<capturedFrameRef, latestResultRef, pendingFramesMap, latencyMs,
           violationLog, driverStatus, framesCount, fps>>

\* m is a result that VideoFeed or DriverVideoFeed cannot match to a frame.
IsDrop(m) ==
    /\ kind \in {"VideoFeed", "DriverVideoFeed"}
    /\ TreatedAsResult(m)
    /\ ~Matched(m)

\* The handler changes nothing but the closure of its socket.
Quiet(ss) ==
    /\ socks' = ss
    /\ NoAccept
    /\ UNCHANGED <<wsRef, effSock, timers, latencyMs, framesCount, fps,
                   violationLog, driverStatus, parentResult>>

OnMessage(s, m) ==
    /\ socks[s].rs = "OPEN"
    /\ LET ss == [socks EXCEPT
                    ![s].isProcessing = FALSE,
                    ![s].await = IF m.type = "result" /\ m.frame_id = @
                                 THEN 0 ELSE @]
       IN  CASE ~Parsed(m) \/ m.type = "ready" ->
                  Quiet(ss) /\ UNCHANGED wsStatus
             [] Parsed(m) /\ m.type # "ready" /\ ~TreatedAsResult(m) ->
                  \* VideoFeed: payload.type === "error" && payload.message
                  Quiet(ss) /\ wsStatus' = "Error: message"
             [] TreatedAsResult(m) /\ ~Matched(m) /\ DropsUnmatched ->
                  Quiet(ss) /\ UNCHANGED wsStatus
             [] OTHER ->
                  /\ kind = "CameraFeed" => CanCommit(activeMode, TRUE)
                  /\ IF Matched(m) THEN AcceptFrame(m) ELSE NoAccept
                  /\ Book(m, ss)
                  /\ UNCHANGED wsStatus
    /\ dropsClean' = (dropsClean /\ (IsDrop(m) => UNCHANGED panel))
    /\ UNCHANGED <<otherPages, pageOnly, kind, activeMode, isPaused, camPending, video,
                   frameSequence, shot, sent, sessionBase>>

\* ---------------------------------------------------------------- render loop
\* What render() draws on the display canvas: the frame ...
PaintedFrame ==
    CASE capturedFrameRef # 0 -> capturedFrameRef
      [] capturedFrameRef = 0 /\ kind = "VideoFeed" -> LOADING
      [] capturedFrameRef = 0 /\ kind # "VideoFeed" /\ VideoReady -> LIVE
      [] OTHER -> BLANK

\* ... and over it the detections of this result (0: none).
PaintedOverlay == latestResultRef

\* The render loop runs, and VideoFeed's canvas is mounted, while activeMode is set.
Rendering == activeMode # "none"


\* ------------------------------------- ErgonomicsPage and VehicleControlPage
\* The two pages share one design: connectWs is called by the source handlers,
\* render() draws the live video, sends a frame every SEND_INTERVAL ms and
\* overlays latestResultRef.  The clock moves in steps of half an interval; a
\* frame is identified by the time it was taken at, which is also what sendFrame
\* puts in frame_id.
HalfInterval == SEND_INTERVAL \div 2
Clock0 == 10 * SEND_INTERVAL

\* A stamp that is not the time the frame was taken at.
StampAhead(t) == t + SEND_INTERVAL

\* frame_id: Date.now()
FrameStamp(t) == t

\* A render loop that sent on every iteration.
AlwaysDue(elapsed) == TRUE

\* now - lastSendTime >= SEND_INTERVAL
Due(elapsed) == elapsed >= SEND_INTERVAL

\* wsRef.current?.readyState === WebSocket.OPEN
WsRefOpen(ss) == wsRef # 0 /\ ss[wsRef].rs = "OPEN"

CanConnect == WsRefOpen(socks) \/ Len(socks) < MaxSockets

\* connectWs, the sockets being ss
ConnectWs(ss) ==
    IF WsRefOpen(ss)
    THEN /\ socks' = ss
         /\ wsRef' = wsRef
    ELSE /\ socks' = Append(ss, NewSocket(FALSE))
         /\ wsRef' = Len(ss) + 1

\* The render effect, deps [activeMode, sendFrame(, showGuide)]: a run that
\* follows a change starts with lastSendTime = 0.
EffectRerun(changed) == lastSendTime' = IF changed THEN 0 ELSE lastSendTime

\* startWebcam up to its await (the buttons are shown while no source is active)
PageStartWebcam ==
    /\ activeMode = "none"
    /\ ~camPending
    /\ camPending' = TRUE
    /\ UNCHANGED <<otherPages, feedOnly, pageOnly, kind, activeMode, video, latestResultRef,
                   wsRef, socks, framesCount, fps, wsStatus, sent>>

\* startWebcam after getUserMedia and play() resolved
PageWebcamGranted ==
    /\ camPending
    /\ CanConnect
    /\ camPending' = FALSE
    /\ video' = "playing"
    /\ activeMode' = "webcam"
    /\ ConnectWs(socks)
    /\ EffectRerun(activeMode # "webcam")
    /\ UNCHANGED <<otherPages, feedOnly, kind, latestResultRef, framesCount, fps, wsStatus,
                   sent, now, result, showGuide, unacked>>

\* handleFileUpload
PageHandleFile ==
    /\ activeMode = "none"
    /\ CanConnect
    /\ video' = "loading"
    /\ activeMode' = "video"
    /\ ConnectWs(socks)
    /\ EffectRerun(TRUE)
    /\ UNCHANGED <<otherPages, feedOnly, kind, camPending, latestResultRef, framesCount, fps,
                   wsStatus, sent, now, result, showGuide, unacked>>

\* stopEverything of a page: latestResultRef is left as it is
PageStop ==
    /\ activeMode # "none"
    /\ video' = "empty"
    /\ socks' = StoppedSocks
    /\ activeMode' = "none"
    /\ result' = 0
    /\ EffectRerun(TRUE)
    /\ UNCHANGED <<otherPages, feedOnly, kind, camPending, latestResultRef, wsRef, framesCount,
                   fps, wsStatus, sent, now, showGuide, unacked>>

\* setShowGuide(!showGuide) (ErgonomicsPage)
PageToggleGuide ==
    /\ kind = "ErgonomicsPage"
    /\ showGuide' = ~showGuide
    /\ EffectRerun(activeMode # "none")
    /\ UNCHANGED <<otherPages, feedOnly, kind, activeMode, camPending, video, latestResultRef,
                   wsRef, socks, framesCount, fps, wsStatus, sent, now, result,
                   unacked>>

PageOnOpen(s) ==
    /\ socks[s].rs = "CONNECTING"
    /\ socks' = [socks EXCEPT ![s].rs = "OPEN"]
    /\ wsStatus' = "Conectado"
    /\ UNCHANGED <<otherPages, feedOnly, pageOnly, kind, activeMode, camPending, video,
                   latestResultRef, wsRef, framesCount, fps, sent>>

PageOnError(s) ==
    /\ socks[s].rs \in {"CONNECTING", "OPEN", "CLOSING"}
    /\ socks' = [socks EXCEPT ![s].rs = "CLOSING"]
    /\ wsStatus' = "Error de conexion"
    /\ UNCHANGED <<otherPages, feedOnly, pageOnly, kind, activeMode, camPending, video,
                   latestResultRef, wsRef, framesCount, fps, sent>>

PageOnClose(s) ==
    /\ socks[s].rs # "CLOSED"
    /\ socks' = [socks EXCEPT ![s].rs = "CLOSED"]
    /\ wsStatus' = "Desconectado"
    /\ UNCHANGED <<otherPages, feedOnly, pageOnly, kind, activeMode, camPending, video,
                   latestResultRef, wsRef, framesCount, fps, sent>>

\* What a server can answer a page: a result computed from a frame it was sent,
\* or something that is no result.
PageMessages ==
    [type : {"result"}, frame_id : {sent[i] : i \in 1..Len(sent)}]
        \cup [type : {"other"}, frame_id : {0}]

\* ws.onmessage of a page: there is no look-up of the frame.
PageOnMessage(s, m) ==
    /\ socks[s].rs = "OPEN"
    /\ IF m.type = "result"
       THEN /\ result' = m.frame_id
            /\ latestResultRef' = m.frame_id
            /\ \E sec \in BOOLEAN : Counted(sec)
            /\ unacked' = unacked \ {m.frame_id}
       ELSE UNCHANGED <<result, latestResultRef, framesCount, fps, unacked>>
    /\ UNCHANGED <<otherPages, feedOnly, kind, activeMode, camPending, video, wsRef, socks,
                   wsStatus, sent, now, lastSendTime, showGuide>>

\* The render loop runs while a source is active and draws once the video has data.
PageRendering == activeMode # "none" /\ VideoReady

\* sendFrame: nothing unless wsRef is OPEN (video.readyState >= 2 holds in render)
SendFrame ==
    IF WsRefOpen(socks)
    THEN /\ sent' = Append(sent, FrameStamp(now))
         /\ unacked' = unacked \cup {FrameStamp(now)}
    ELSE UNCHANGED <<sent, unacked>>

\* An iteration of render() in which the interval has passed (any other
\* iteration only redraws): sendFrame(); lastSendTime = now.  Date.now() is
\* finer than the model's clock: no two frames carry the same frame_id.
PageRender ==
    /\ PageRendering
    /\ Due(now - lastSendTime)
    /\ WsRefOpen(socks) => \A i \in 1..Len(sent) : sent[i] # FrameStamp(now)
    /\ SendFrame
    /\ lastSendTime' = now
    /\ UNCHANGED <<otherPages, feedOnly, kind, activeMode, camPending, video, latestResultRef,
                   wsRef, socks, framesCount, fps, wsStatus, now, result,
                   showGuide>>

\* What render() draws: the live video frame, and over it the detections of
\* latestResultRef (0: none).
PagePaintedImage == now
PagePaintedOverlay == latestResultRef

\* Time passes.
Tick ==
    /\ now < Clock0 + MaxTicks * HalfInterval
    /\ now' = now + HalfInterval
    /\ UNCHANGED <<otherPages, feedOnly, kind, activeMode, camPending, video, latestResultRef,
                   wsRef, socks, framesCount, fps, wsStatus, sent, lastSendTime,
                   result, showGuide, unacked>>

\* ------------------------------------------------------------- UploadJobPage
MAX_FILE_BYTES == 20 * 1024 * 1024

\* null, for a File or an error text.
NoFile == [type |-> "null", size |-> 0]
NoError == "null"

\* The files a user can pick or drop: file.type and file.size.
FileTypes == {"video/mp4", "video/quicktime", "image/png", ""}
FileSizes == {MAX_FILE_BYTES - 1, MAX_FILE_BYTES, MAX_FILE_BYTES + 1}
Files == [type : FileTypes, size : FileSizes]

\* file.type.includes("video"), on the types above.
IncludesVideo(type) == type \in {"video/mp4", "video/quicktime"}

\* A size check that lets every file through.
NeverTooBig(size) == FALSE

\* file.size > MAX_FILE_BYTES
TooBig(size) == size > MAX_FILE_BYTES

\* State after mount.  createdWith records the files createJob was called
\* with (nulls included), lastPick and picked the last call of handleFile.
UploadPage0 ==
    [selectedFile |-> NoFile, error |-> NoError, isDragging |-> FALSE,
     isUploading |-> FALSE, navigated |-> FALSE,
     createdWith |-> {}, lastPick |-> NoFile, picked |-> FALSE]

\* handleFile(file): the state it leaves.
UploadHandleFile(u, file) ==
    LET seen == [u EXCEPT !.lastPick = file, !.picked = ~u.picked] IN
    IF file = NoFile THEN seen
    ELSE IF ~IncludesVideo(file.type)
    THEN [seen EXCEPT !.error = "Solo se aceptan videos MP4/MOV."]
    ELSE IF TooBig(file.size)
    THEN [seen EXCEPT !.error = "El video supera el limite de 20 MB."]
    ELSE [seen EXCEPT !.error = NoError, !.selectedFile = file]

\* onFileChange: event.target.files?.[0] may be undefined.
OnFileChange ==
    /\ ~uploadPage.navigated
    /\ \E file \in Files \cup {NoFile} :
           uploadPage' = UploadHandleFile(uploadPage, file)
    /\ UNCHANGED <<streaming, jobStatus, dashboard>>

OnDragOver ==
    /\ ~uploadPage.navigated
    /\ uploadPage' = [uploadPage EXCEPT !.isDragging = TRUE]
    /\ UNCHANGED <<streaming, jobStatus, dashboard>>

OnDragLeave ==
    /\ ~uploadPage.navigated
    /\ uploadPage' = [uploadPage EXCEPT !.isDragging = FALSE]
    /\ UNCHANGED <<streaming, jobStatus, dashboard>>

OnDrop ==
    /\ ~uploadPage.navigated
    /\ \E file \in Files \cup {NoFile} :
           uploadPage' = UploadHandleFile(
                             [uploadPage EXCEPT !.isDragging = FALSE], file)
    /\ UNCHANGED <<streaming, jobStatus, dashboard>>

\* onSubmit up to the await; the button is disabled while isUploading.
OnSubmit ==
    /\ ~uploadPage.navigated
    /\ ~uploadPage.isUploading
    /\ uploadPage' =
           IF uploadPage.selectedFile = NoFile
           THEN [uploadPage EXCEPT
                     !.error = "Selecciona un video corto antes de subir."]
           ELSE [uploadPage EXCEPT
                     !.isUploading = TRUE,
                     !.createdWith = @ \cup {uploadPage.selectedFile}]
    /\ UNCHANGED <<streaming, jobStatus, dashboard>>

\* createJob resolved: navigate to /jobs/{job_id}, which unmounts the page.
CreateJobResolved ==
    /\ ~uploadPage.navigated
    /\ uploadPage.isUploading
    /\ uploadPage' = [uploadPage EXCEPT !.isUploading = FALSE, !.navigated = TRUE]
    /\ UNCHANGED <<streaming, jobStatus, dashboard>>

\* createJob rejected: the catch and the finally.
CreateJobRejected ==
    /\ ~uploadPage.navigated
    /\ uploadPage.isUploading
    /\ \E msg \in {"Upload failed", "No se pudo crear el job."} :
           uploadPage' = [uploadPage EXCEPT !.isUploading = FALSE, !.error = msg]
    /\ UNCHANGED <<streaming, jobStatus, dashboard>>

\* ------------------------------------------------------------- JobStatusPage
JobStatuses == {"queued", "running", "done", "completed", "failed"}

\* State after mount: the effect has called fetchStatus once and armed the
\* interval.  active is the effect's `let active`; inFlight counts the getJob
\* calls not yet settled; polls, lastReply and replies are history (the calls
\* made, the last settlement and a flag that flips at every settlement).
JobStatus0 ==
    [active |-> TRUE, interval |-> TRUE, job |-> "null", error |-> NoError,
     navigated |-> FALSE, inFlight |-> 1,
     polls |-> 1, lastReply |-> "null", replies |-> FALSE]

\* An effect that never learns it was cleaned up.
AlwaysActive(j) == TRUE

\* if (!active) return
StillActive(j) == j.active

\* data.status === "done" || data.status === "completed"
IsDone(status) == status \in {"done", "completed"}

\* The effect cleanup.
JobCleanedUp(j) == [j EXCEPT !.active = FALSE, !.interval = FALSE]

\* setInterval(fetchStatus, 2000) fires: fetchStatus up to its await.
JobIntervalFire ==
    /\ jobStatus.interval
    /\ jobStatus.polls < MaxPolls
    /\ jobStatus' = [jobStatus EXCEPT !.inFlight = @ + 1, !.polls = @ + 1]
    /\ UNCHANGED <<streaming, uploadPage, dashboard>>

\* getJob resolved with a job of some status: the rest of the try block.
\* navigate(..., {replace: true}) leaves the route, so the page unmounts.
GetJobResolved ==
    /\ jobStatus.inFlight > 0
    /\ \E status \in JobStatuses :
         LET got == [jobStatus EXCEPT !.inFlight = @ - 1, !.lastReply = status,
                                      !.replies = ~@] IN
         jobStatus' =
             IF ~StillActive(jobStatus) THEN got
             ELSE IF IsDone(status)
             THEN JobCleanedUp([got EXCEPT !.job = status, !.navigated = TRUE])
             ELSE [got EXCEPT !.job = status]
    /\ UNCHANGED <<streaming, uploadPage, dashboard>>

\* getJob threw (fetch failed or response not ok): the catch block.
GetJobRejected ==
    /\ jobStatus.inFlight > 0
    /\ LET got == [jobStatus EXCEPT !.inFlight = @ - 1, !.lastReply = "rejected",
                                    !.replies = ~@] IN
       jobStatus' =
           IF ~StillActive(jobStatus) THEN got
           ELSE [got EXCEPT !.error = "Failed to fetch job"]
    /\ UNCHANGED <<streaming, uploadPage, dashboard>>

\* The user leaves the page.
JobUnmount ==
    /\ jobStatus.active
    /\ jobStatus' = JobCleanedUp(jobStatus)
    /\ UNCHANGED <<streaming, uploadPage, dashboard>>

\* --------------------------------------------------------- SecurityDashboard
EVENTS_KEEP == 100      \* [event, ...prev].slice(0, 100)
Severities == {"crit", "high", "low"}

\* The state the live-feed effect can be in right after connect() returns: ws
\* is the effect's `let ws` by its readyState ("null" before any socket was
\* constructed), attempt flips at every call of connect that reaches
\* `new WebSocket`.
DashAfterConnect(d, constructed) ==
    IF d.cancelled THEN d
    ELSE IF constructed
    THEN [d EXCEPT !.ws = "CONNECTING", !.attempt = ~@]
    ELSE [d EXCEPT !.reconnectTimer = TRUE, !.attempt = ~@]

Dashboard00 ==
    [cancelled |-> FALSE, ws |-> "null", reconnectTimer |-> FALSE,
     attempt |-> FALSE, pinged |-> FALSE, events |-> 0,
     stats |-> [total_events |-> 0, critical |-> 0, high |-> 0]]

\* State after mount when `new WebSocket` succeeded.
Dashboard0 == DashAfterConnect(Dashboard00, TRUE)

\* An onclose that never schedules a reconnect.
NoRearm(d) == FALSE

\* ws.onclose: if (!cancelled) reconnectTimer = setTimeout(connect, 3000)
Rearms(d) == ~d.cancelled

\* reconnectTimer fires: connect().
DashTimerFire ==
    /\ dashboard.reconnectTimer
    /\ \E constructed \in BOOLEAN :
           dashboard' = DashAfterConnect(
                            [dashboard EXCEPT !.reconnectTimer = FALSE], constructed)
    /\ UNCHANGED <<streaming, uploadPage, jobStatus>>

\* ws.onopen
DashOnOpen ==
    /\ dashboard.ws = "CONNECTING"
    /\ dashboard' = [dashboard EXCEPT !.ws = "OPEN",
                                      !.pinged = @ \/ ~dashboard.cancelled]
    /\ UNCHANGED <<streaming, uploadPage, jobStatus>>

\* ws.onmessage: a bad message is ignored.
DashOnMessage ==
    /\ dashboard.ws = "OPEN"
    /\ dashboard.stats.total_events < MaxEvents
    /\ \E ok \in BOOLEAN, severity \in Severities :
         dashboard' =
           IF ~ok THEN dashboard
           ELSE [dashboard EXCEPT
                   !.events = IF @ < EVENTS_KEEP THEN @ + 1 ELSE EVENTS_KEEP,
                   !.stats = [total_events |-> @.total_events + 1,
                              critical |-> IF severity = "crit"
                                           THEN @.critical + 1 ELSE @.critical,
                              high |-> IF severity = "high"
                                       THEN @.high + 1 ELSE @.high]]
    /\ UNCHANGED <<streaming, uploadPage, jobStatus>>

\* ws.onerror: ws?.close()
DashOnError ==
    /\ dashboard.ws \in {"CONNECTING", "OPEN"}
    /\ dashboard' = [dashboard EXCEPT !.ws = "CLOSING"]
    /\ UNCHANGED <<streaming, uploadPage, jobStatus>>

\* ws.onclose
DashOnClose ==
    /\ dashboard.ws \in {"CONNECTING", "OPEN", "CLOSING"}
    /\ dashboard' = [dashboard EXCEPT !.ws = "CLOSED",
                                      !.reconnectTimer = Rearms(dashboard)]
    /\ UNCHANGED <<streaming, uploadPage, jobStatus>>

\* The close event of a socket on which close() was called.
DashCloseCompletes == dashboard.ws = "CLOSING" /\ DashOnClose

\* The effect cleanup (unmount).
DashUnmount ==
    /\ ~dashboard.cancelled
    /\ dashboard' = [dashboard EXCEPT
                       !.cancelled = TRUE,
                       !.reconnectTimer = FALSE,
                       !.ws = IF @ \in {"CONNECTING", "OPEN"} THEN "CLOSING" ELSE @]
    /\ UNCHANGED <<streaming, uploadPage, jobStatus>>

\* --------------------------------------------------------------- specification
\* The props a component is mounted with: only VideoFeed takes initialMode, and
\* PPEUploadPage mounts it with "file".
InitialModes(k) == IF k = "VideoFeed" THEN {"none", "file"} ELSE {"none"}

Init ==
    /\ kind \in Kinds
    /\ activeMode \in InitialModes(kind)
    /\ isPaused = FALSE
    /\ camPending = FALSE
    /\ video = "empty"
    /\ frameSequence = 0
    /\ pendingFramesMap = {}
    /\ capturedFrameRef = 0
    /\ latestResultRef = 0
    /\ socks = IF activeMode = "none" THEN << >> ELSE <<NewSocket(FALSE)>>
    /\ wsRef = Len(socks)
    /\ effSock = Len(socks)
    /\ timers = << >>
    /\ latencyMs = 0
    /\ framesCount = 0
    /\ fps = 0
    /\ violationLog = 0
    /\ driverStatus = 0
    /\ parentResult = -1
    /\ wsStatus = IF kind = "CameraFeed" THEN "Selecciona fuente"
                  ELSE "Selecciona una fuente"
    /\ shot = [i \in 1..MaxFrames |-> 0]
    /\ sent = << >>
    /\ sessionBase = 0
    /\ lastShownId = 0
    /\ dropsClean = TRUE
    /\ now = 0
    /\ lastSendTime = 0
    /\ result = 0
    /\ showGuide = TRUE
    /\ unacked = {}
    /\ uploadPage = UploadPage0
    /\ jobStatus = JobStatus0
    /\ dashboard = Dashboard0

Next ==
    \/ StopEverything
    \/ HandleFile
    \/ StartWebcam
    \/ WebcamGranted
    \/ WebcamDenied
    \/ TogglePause
    \/ ParentRerender
    \/ VideoLoaded
    \/ VideoEnded
    \/ \E s \in 1..Len(socks) : LoopStep(s)
    \/ \E s \in 1..Len(socks) : OnOpen(s)
    \/ \E s \in 1..Len(socks) : OnError(s)
    \/ \E s \in 1..Len(socks) : OnClose(s)
    \/ \E s \in 1..Len(socks), m \in Messages : OnMessage(s, m)
    \/ TimerFire

Spec == Init /\ [][Next]_vars

\* One instance of ErgonomicsPage or VehicleControlPage.
PageInit ==
    /\ kind \in PageKinds
    /\ activeMode = "none"
    /\ isPaused = FALSE
    /\ camPending = FALSE
    /\ video = "empty"
    /\ frameSequence = 0
    /\ pendingFramesMap = {}
    /\ capturedFrameRef = 0
    /\ latestResultRef = 0
    /\ socks = << >>
    /\ wsRef = 0
    /\ effSock = 0
    /\ timers = << >>
    /\ latencyMs = 0
    /\ framesCount = 0
    /\ fps = 0
    /\ violationLog = 0
    /\ driverStatus = 0
    /\ parentResult = -1
    /\ wsStatus = "Desconectado"
    /\ shot = [i \in 1..MaxFrames |-> 0]
    /\ sent = << >>
    /\ sessionBase = 0
    /\ lastShownId = 0
    /\ dropsClean = TRUE
    /\ now = Clock0
    /\ lastSendTime = 0
    /\ result = 0
    /\ showGuide = TRUE
    /\ unacked = {}
    /\ uploadPage = UploadPage0
    /\ jobStatus = JobStatus0
    /\ dashboard = Dashboard0

PageNext ==
    \/ PageStartWebcam
    \/ PageWebcamGranted
    \/ WebcamDenied
    \/ PageHandleFile
    \/ PageStop
    \/ PageToggleGuide
    \/ VideoLoaded
    \/ \E s \in 1..Len(socks) : PageOnOpen(s)
    \/ \E s \in 1..Len(socks) : PageOnError(s)
    \/ \E s \in 1..Len(socks) : PageOnClose(s)
    \/ \E s \in 1..Len(socks), m \in PageMessages : PageOnMessage(s, m)
    \/ PageRender
    \/ Tick

PageSpec == PageInit /\ [][PageNext]_vars

\* The streaming variables of an instance that streams nothing.
NotStreaming ==
    /\ activeMode = "none"
    /\ isPaused = FALSE
    /\ camPending = FALSE
    /\ video = "empty"
    /\ frameSequence = 0
    /\ pendingFramesMap = {}
    /\ capturedFrameRef = 0
    /\ latestResultRef = 0
    /\ socks = << >>
    /\ wsRef = 0
    /\ effSock = 0
    /\ timers = << >>
    /\ latencyMs = 0
    /\ framesCount = 0
    /\ fps = 0
    /\ violationLog = 0
    /\ driverStatus = 0
    /\ parentResult = -1
    /\ wsStatus = ""
    /\ shot = [i \in 1..MaxFrames |-> 0]
    /\ sent = << >>
    /\ sessionBase = 0
    /\ lastShownId = 0
    /\ dropsClean = TRUE
    /\ now = 0
    /\ lastSendTime = 0
    /\ result = 0
    /\ showGuide = TRUE
    /\ unacked = {}

\* One instance of UploadJobPage.
UploadInit ==
    /\ kind = "UploadJobPage"
    /\ NotStreaming
    /\ uploadPage = UploadPage0
    /\ jobStatus = JobStatus0
    /\ dashboard = Dashboard0

UploadNext ==
    \/ OnFileChange
    \/ OnDragOver
    \/ OnDragLeave
    \/ OnDrop
    \/ OnSubmit
    \/ CreateJobResolved
    \/ CreateJobRejected

UploadSpec == UploadInit /\ [][UploadNext]_vars

\* One instance of JobStatusPage.
JobInit ==
    /\ kind = "JobStatusPage"
    /\ NotStreaming
    /\ uploadPage = UploadPage0
    /\ jobStatus = JobStatus0
    /\ dashboard = Dashboard0

JobNext ==
    \/ JobIntervalFire
    \/ GetJobResolved
    \/ GetJobRejected
    \/ JobUnmount

JobSpec == JobInit /\ [][JobNext]_vars

\* One instance of SecurityDashboard: on mount `new WebSocket` either succeeded
\* or threw.  The reconnect timer fires once its 3 s have passed, and the close
\* event follows every close() call; a server need not do anything.
DashInit ==
    /\ kind = "SecurityDashboard"
    /\ NotStreaming
    /\ uploadPage = UploadPage0
    /\ jobStatus = JobStatus0
    /\ dashboard \in {Dashboard0, DashAfterConnect(Dashboard00, FALSE)}

DashNext ==
    \/ DashTimerFire
    \/ DashOnOpen
    \/ DashOnMessage
    \/ DashOnError
    \/ DashOnClose
    \/ DashUnmount

DashSpec ==
    /\ DashInit
    /\ [][DashNext]_vars
    /\ WF_vars(DashTimerFire)
    /\ WF_vars(DashCloseCompletes)

\* ------------------------------------------------------------------ properties
SomeOpenSocket == \E s \in 1..Len(socks) : socks[s].rs = "OPEN"
SentIds == {sent[i] : i \in 1..Len(sent)}

\* C1: whenever latestResultRef is non-null, capturedFrameRef is the image that
\* was captured and stored under latestResultRef.frame_id: the overlay and the
\* frame on display belong to the same frame_id.
OverlayMatchesFrame ==
    latestResultRef # 0 => capturedFrameRef = shot[latestResultRef]

\* A result for frame 2 is on display while a later frame is still pending.
OverlayMatchesFrameSeen ==
    /\ latestResultRef = 2
    /\ capturedFrameRef = shot[2]
    /\ \E e \in pendingFramesMap : e.id > 2

\* C2: on one socket a frame is sent only if the frame sent before it on that
\* socket has been answered by a result carrying its frame_id, or has been
\* outstanding for its full 5 s.
LockStep ==
    [][\A s \in 1..Len(socks) :
          (socks'[s].await # socks[s].await /\ socks'[s].await # 0)
              => (socks[s].await = 0 \/ ~Young(s, socks[s].await))]_vars

\* C3: with the socket open, the loop running, the video playing unpaused and
\* every 5 s timeout of an earlier frame over, the next loop iteration sends a
\* frame: unanswered frames do not stall the stream for good.
TimeoutRecovers ==
    \A s \in 1..Len(socks) :
        (/\ socks[s].rs = "OPEN"
         /\ socks[s].loop
         /\ ~socks[s].isPausedC
         /\ video = "playing"
         /\ timers = << >>)
            => LoopPasses(socks[s])

\* C4: pendingFramesMap never holds more than 3 entries, which is below the
\* size at which the "keep last 100" clean-up would delete one.
MapBounded ==
    /\ Cardinality(pendingFramesMap) <= BACKPRESSURE_LIMIT + 1
    /\ BACKPRESSURE_LIMIT + 1 <= MAP_KEEP

\* Three frames are pending and only the backpressure guard keeps a running,
\* idle loop from sending a fourth.
MapBoundedSeen ==
    /\ Cardinality(pendingFramesMap) = BACKPRESSURE_LIMIT + 1
    /\ video = "playing"
    /\ \E s \in 1..Len(socks) :
           /\ socks[s].rs = "OPEN"
           /\ socks[s].loop
           /\ ~socks[s].isProcessing
           /\ ~socks[s].isPausedC

\* C5: every frame_id sent is greater than every frame_id sent before it.
FrameIdsIncrease ==
    \A i, j \in 1..Len(sent) : i < j => sent[i] < sent[j]

\* A frame has been sent on a second socket, for a source started after
\* earlier frames had been sent.
FrameIdsIncreaseSeen ==
    /\ sessionBase > 0
    /\ frameSequence > sessionBase
    /\ \E i \in 1..Len(timers) : timers[i].s > 1 /\ timers[i].f > sessionBase

\* C6: every accepted update puts a frame_id on display that is greater than
\* every frame_id displayed before.
DisplayMovesForward ==
    [][(latestResultRef' # latestResultRef /\ latestResultRef' # 0)
          => latestResultRef' > lastShownId]_vars

\* A frame after the first is on display, the first was sent, and a socket is
\* open on which its result can still arrive.
DisplayMovesForwardSeen ==
    /\ latestResultRef > 1
    /\ lastShownId = latestResultRef
    /\ pendingFramesMap = {}
    /\ SomeOpenSocket

\* C7: in VideoFeed and DriverVideoFeed a result whose frame_id is not a key of
\* pendingFramesMap leaves capturedFrameRef, latestResultRef, pendingFramesMap,
\* the latency, the violation log, the driver status and the fps counter as
\* they were.
UnmatchedIsDropped == dropsClean

\* A result is on display, its frame_id is no longer a key, other frames are
\* pending and a socket is open: a duplicate of that result can arrive.
UnmatchedIsDroppedSeen ==
    /\ kind \in {"VideoFeed", "DriverVideoFeed"}
    /\ latestResultRef # 0
    /\ latestResultRef \notin Keys(pendingFramesMap)
    /\ pendingFramesMap # {}
    /\ fps # 0
    /\ SomeOpenSocket

\* C8: while VideoFeed renders, the canvas shows the loading screen or a frame
\* captured since the current source was started.
OnlyFramesOfThisSession ==
    (kind = "VideoFeed" /\ Rendering)
        => \/ PaintedFrame = LOADING
           \/ \E id \in (sessionBase + 1)..frameSequence : shot[id] = PaintedFrame

\* C9 as stated: a page sends a frame only when no earlier frame is unanswered.
PageSendsOnlyWhenAcked ==
    [][sent' # sent => unacked = {}]_vars

\* C9: a page sends a frame only when SEND_INTERVAL ms have passed since the
\* last send attempt of the running render effect, answered or not.
PageSendsByTheClock ==
    [][sent' # sent => now - lastSendTime >= SEND_INTERVAL]_vars

\* Two frames of a page are unanswered at once.
PageSendsByTheClockSeen ==
    /\ kind \in PageKinds
    /\ Cardinality(unacked) >= 2

ValidFile(f) ==
    /\ f.type \in {"video/mp4", "video/quicktime"}
    /\ f.size <= 20971520

\* C11: UploadJobPage's selectedFile is null or a validated file, createJob is
\* only ever called with a validated file (never with null), a pick of a valid
\* file (20 MB exactly included) selects it and clears the error, and a
\* rejected pick sets the error and leaves the selection as it was.
UploadsOnlyValidated ==
    /\ [](/\ uploadPage.selectedFile = NoFile \/ ValidFile(uploadPage.selectedFile)
          /\ \A f \in uploadPage.createdWith : f # NoFile /\ ValidFile(f))
    /\ [][uploadPage'.picked # uploadPage.picked =>
            LET f == uploadPage'.lastPick IN
            IF f = NoFile
            THEN /\ uploadPage'.selectedFile = uploadPage.selectedFile
                 /\ uploadPage'.error = uploadPage.error
            ELSE IF ValidFile(f)
            THEN /\ uploadPage'.selectedFile = f
                 /\ uploadPage'.error = NoError
            ELSE /\ uploadPage'.selectedFile = uploadPage.selectedFile
                 /\ uploadPage'.error # NoError]_vars

\* A file of exactly 20 MB was selected and uploaded, and a later pick of a
\* larger one was rejected.
UploadsOnlyValidatedSeen ==
    /\ uploadPage.selectedFile # NoFile
    /\ uploadPage.selectedFile.size = 20971520
    /\ uploadPage.selectedFile \in uploadPage.createdWith
    /\ uploadPage.lastPick.size > 20971520
    /\ IncludesVideo(uploadPage.lastPick.type)
    /\ uploadPage.error # NoError

\* C12 as stated: whenever a poll returns status done or completed, the page
\* navigates to the result.
JobDoneAlwaysNavigates ==
    [][(jobStatus'.replies # jobStatus.replies
            /\ jobStatus'.lastReply \in {"done", "completed"})
          => jobStatus'.navigated]_vars

\* C12: JobStatusPage keeps its 2 s interval armed exactly until it unmounts,
\* and acts on a poll's answer only while mounted: done or completed then
\* navigates, a failure only sets the error and leaves the interval armed; an
\* answer that arrives after the unmount changes nothing.
JobPollsWhileMounted ==
    /\ [](jobStatus.interval <=> jobStatus.active)
    /\ [][jobStatus'.replies # jobStatus.replies =>
            LET r == jobStatus'.lastReply IN
            IF ~jobStatus.active
            THEN /\ jobStatus'.job = jobStatus.job
                 /\ jobStatus'.error = jobStatus.error
                 /\ jobStatus'.navigated = jobStatus.navigated
            ELSE IF r \in {"done", "completed"}
            THEN jobStatus'.navigated
            ELSE IF r = "rejected"
            THEN /\ jobStatus'.error # NoError
                 /\ jobStatus'.job = jobStatus.job
                 /\ jobStatus'.interval
                 /\ ~jobStatus'.navigated
            ELSE /\ jobStatus'.job = r
                 /\ jobStatus'.interval
                 /\ ~jobStatus'.navigated]_vars

\* A poll failed, a later poll returned done, and the page navigated.
JobPollsWhileMountedSeen ==
    /\ jobStatus.navigated
    /\ jobStatus.lastReply \in {"done", "completed"}
    /\ jobStatus.error # NoError
    /\ jobStatus.polls >= 2

\* C13: while SecurityDashboard is mounted, its events socket is connecting,
\* open or closing, or the 3 s reconnect timer is armed; and whenever the page
\* is mounted without a connecting or open socket (the socket closed, errored,
\* or could not be constructed), a new connection attempt eventually follows
\* unless the page unmounts first.
DashReconnects ==
    /\ [](~dashboard.cancelled =>
             \/ dashboard.ws \in {"CONNECTING", "OPEN", "CLOSING"}
             \/ dashboard.reconnectTimer)
    /\ \A b \in BOOLEAN :
           (/\ ~dashboard.cancelled
            /\ dashboard.ws \notin {"CONNECTING", "OPEN"}
            /\ dashboard.attempt = b)
             ~> (dashboard.cancelled \/ dashboard.attempt # b)

\* The dashboard received an event, lost its socket and is connecting again.
DashReconnectsSeen ==
    /\ ~dashboard.cancelled
    /\ dashboard.ws = "CONNECTING"
    /\ dashboard.stats.total_events > 0

\* C14: when a feed accepts a result with frame_id k, pendingFramesMap loses
\* the entry of k and every entry with a smaller key and keeps every entry
\* with a larger key.
AcceptClearsOlder ==
    [][(latestResultRef' # latestResultRef /\ latestResultRef' # 0) =>
          /\ \A e \in pendingFramesMap' : e.id > latestResultRef'
          /\ \A e \in pendingFramesMap :
                 e.id > latestResultRef' => e \in pendingFramesMap'
          /\ pendingFramesMap' \subseteq pendingFramesMap]_vars

\* The result of frame 2 was accepted while frame 3 was pending: frame 3 is
\* the only entry left.
AcceptClearsOlderSeen ==
    /\ latestResultRef = 2
    /\ lastShownId = 2
    /\ Keys(pendingFramesMap) = {3}
    /\ capturedFrameRef = shot[2]

\* C15: VideoFeed captures, stores and sends no frame while isPaused is true
\* or the video has ended, on any socket it has created.
NoFrameWhilePaused ==
    [][(kind = "VideoFeed"
            /\ (sent' # sent \/ pendingFramesMap' \ pendingFramesMap # {}))
          => ~isPaused /\ video # "ended"]_vars

\* A frame was sent on socket s in this step.
SentOn(s) == sent' # sent /\ socks'[s].await = frameSequence'

\* C16: in VideoFeed a socket that was closed (by stopEverything or by its
\* close event) stays closed, sends no further frame and its loop is not
\* started again; a step that stops the feed leaves activeMode null, wsRef
\* null, latestResultRef null, fps 0, latency 0, isPaused false and an empty
\* violation log; and no frame is sent while no source is active.
StopStops ==
    [][kind = "VideoFeed" =>
          /\ \A s \in 1..Len(socks) :
                 socks[s].rs \in {"CLOSING", "CLOSED"} =>
                     /\ socks'[s].rs \in {"CLOSING", "CLOSED"}
                     /\ ~SentOn(s)
                     /\ socks'[s].loop => socks[s].loop
                 /\ (socks[s].rs = "CLOSED" => ~socks[s].loop)
          /\ (activeMode # "none" /\ activeMode' = "none") =>
                 /\ wsRef' = 0
                 /\ latestResultRef' = 0
                 /\ fps' = 0
                 /\ latencyMs' = 0
                 /\ ~isPaused'
                 /\ violationLog' = 0
                 /\ (wsRef # 0 => /\ socks'[wsRef].rs \in {"CLOSING", "CLOSED"}
                                /\ ~socks'[wsRef].loop)
          /\ sent' # sent => activeMode # "none"]_vars

\* A feed that had sent frames, shown a result and logged a violation was
\* stopped: its socket is closed and its state is reset.
StopStopsSeen ==
    /\ kind = "VideoFeed"
    /\ activeMode = "none"
    /\ ~camPending
    /\ sent # << >>
    /\ lastShownId > 0
    /\ latestResultRef = 0
    /\ violationLog = 0
    /\ \E s \in 1..Len(socks) : socks[s].rs = "CLOSING"

\* The sockets of the component that are connecting or open, and those whose
\* process loop is running.
LiveSockets == {s \in 1..Len(socks) : socks[s].rs \in {"CONNECTING", "OPEN"}}
Looping == {s \in 1..Len(socks) : socks[s].loop}

\* C17: in VideoFeed at most one socket is open or connecting and at most one
\* process loop is running.
OneLiveSocket ==
    kind = "VideoFeed" =>
        /\ Cardinality(LiveSockets) <= 1
        /\ Cardinality(Looping) <= 1

\* C18: a step that selects a video file (whatever the activeMode before it)
\* leaves the component with a socket that is connecting or open.
FileStartsSession ==
    [][(video # "loading" /\ video' = "loading" /\ activeMode' = "file") =>
          /\ wsRef' # 0
          /\ socks'[wsRef'].rs \in {"CONNECTING", "OPEN"}]_vars

\* C19: the result SafeDrivingPage holds for a camera is the one whose frame
\* and overlay are on that camera's canvas.
ParentShowsTheCanvasResult ==
    (kind = "CameraFeed" /\ parentResult # -1) => parentResult = latestResultRef

\* C20: VideoFeed's wsStatus reads "Conectado" only while the socket of the
\* latest effect run is open, and never reads closed or failed while that
\* socket is open.
StatusOfCurrentSocket ==
    kind = "VideoFeed" =>
        /\ wsStatus = "Conectado" => effSock # 0 /\ socks[effSock].rs = "OPEN"
        /\ (effSock # 0 /\ socks[effSock].rs = "OPEN") =>
               wsStatus \notin {"Conexion cerrada", "Error de WebSocket"}

====
